---- MODULE Spec2Model ----
(***************************************************************************)
(* Inventory ledger and order-fulfilment engine of backend/database.py.    *)
(*                                                                         *)
(* Every function of database.py talks to one module-level DuckDB          *)
(* connection `con`.  The model keeps the connection's view of the tables  *)
(* (db), the committed tables (committed), whether the connection has an   *)
(* explicit transaction open (inTxn), whether a failed statement has       *)
(* aborted that transaction (aborted), and one call record per caller.     *)
(* A handler is a chain of steps, one per statement group of its code;     *)
(* under Spec one call runs at a time, under SpecConc two callers          *)
(* interleave at the datastore boundary.  SpecStock runs stock_materials   *)
(* on every kind of request, SpecCatalog runs orders on a catalog that is  *)
(* repriced and deleted, SpecBom runs the maintenance of the bills of      *)
(* materials and calculate_quote, SpecLedger runs status changes and the   *)
(* two delete handlers on a ledger that holds a receipt and an order,      *)
(* SpecNames runs the four handlers that name an item.                     *)
(***************************************************************************)
EXTENDS Integers, Sequences, FiniteSets, TLC

VARIABLES db, committed, inTxn, aborted, owner, calls, nCalls

vars == <<db, committed, inTxn, aborted, owner, calls, nCalls>>

\* the connection: its tables, the committed tables, its transaction
conn == <<db, committed, inTxn, aborted, owner>>

----------------------------------------------------------------------------
(* Bounds *)

MaxCalls == 2
MaxLines == 2
MaxItems == 2
NProcs == 2
MaxMaterials == 2

Procs == 1..NProcs

----------------------------------------------------------------------------
(* Values *)

\* Python None / SQL NULL; generated row ids are 1, 2, ...
NULL == 0

\* str.strip().title() on the names the inputs draw from
Title(s) ==
    CASE s = "glue " -> "Glue"
      [] s = "steel" -> "Steel"
      [] s = "acme" -> "Acme"
      [] s = " bolt co" -> "Bolt Co"
      [] s = "chair" -> "Chair"
      [] OTHER -> s

\* SQL LOWER() and str.lower() on the names the tables can hold
Lower(s) ==
    CASE s = "Glue" -> "glue"
      [] s = "Glue " -> "glue "
      [] s = "Steel" -> "steel"
      [] s = "Acme" -> "acme"
      [] s = "Bolt Co" -> "bolt co"
      [] s = "Bolt" -> "bolt"
      [] s = "Chair" -> "chair"
      [] s = "Table" -> "table"
      [] OTHER -> s

\* SQL TRIM() on the names the tables can hold
Trim(s) ==
    CASE s = "Glue " -> "Glue"
      [] s = "glue " -> "glue"
      [] OTHER -> s

RECURSIVE SeqSum(_)
SeqSum(s) == IF s = <<>> THEN 0 ELSE Head(s) + SeqSum(Tail(s))

\* [f(s[1]), ..., f(s[n])]
Map(s, f(_)) == [k \in 1..Len(s) |-> f(s[k])]

\* all sequences over S of length 1..n
SeqsUpTo(S, n) == UNION {[1..k -> S] : k \in 1..n}

----------------------------------------------------------------------------
(* Tables *)

\* The catalog the engine runs on: two materials, two products and their
\* bills of materials, one supplier, the receipt stock type, two order
\* statuses.
SeedDb(supplier2) ==
    [ items |-> (1 :> "Steel") @@ (2 :> "Bolt") @@ (3 :> "Chair") @@ (4 :> "Table"),
      materials |->
          (1 :> [item_id |-> 1, current_stock |-> 0, supplier_id |-> 1,
                 material_cost |-> 3]) @@
          (2 :> [item_id |-> 2, current_stock |-> 0, supplier_id |-> supplier2,
                 material_cost |-> 2]),
      products |->
          (1 :> [item_id |-> 3, unit_price |-> 5]) @@
          (2 :> [item_id |-> 4, unit_price |-> 7]),
      product_materials |->
          << [product_id |-> 1, material_id |-> 1, used_quantity |-> 2,
              unit_cost |-> 3],
             [product_id |-> 2, material_id |-> 1, used_quantity |-> 3,
              unit_cost |-> 3],
             [product_id |-> 2, material_id |-> 2, used_quantity |-> 1,
              unit_cost |-> 2] >>,
      suppliers |-> (1 :> "Acme"),
      customers |-> (1 :> "c1"),
      stock_types |-> {[id |-> "T1", type_code |-> "STT001"]},
      order_statuses |-> {[id |-> 1, status_code |-> "OS001"],
                          [id |-> 2, status_code |-> "OS002"]},
      stock_transactions |-> <<>>,
      stock_transaction_items |-> <<>>,
      order_transactions |-> <<>>,
      order_items |-> <<>> ]

\* id of the row an INSERT ... RETURNING id adds to a keyed table
NextId(table) == IF DOMAIN table = {} THEN 1
                 ELSE 1 + CHOOSE k \in DOMAIN table : \A j \in DOMAIN table : j <= k

----------------------------------------------------------------------------
(* The shared connection *)

\* the tables after a statement of the connection wrote `d`: outside an
\* explicit transaction the statement autocommits
Written(d) ==
    /\ db' = d
    /\ committed' = IF inTxn THEN committed ELSE d

\* the open transaction was aborted by a failed statement: every statement
\* but COMMIT and ROLLBACK raises until it is rolled back
Broken == inTxn /\ aborted

\* con.execute("BEGIN") on a connection with no transaction open
BeginOk(p) ==
    /\ ~inTxn
    /\ inTxn' = TRUE
    /\ owner' = p
    /\ UNCHANGED <<db, committed, aborted>>

\* con.execute("BEGIN") while a transaction is open raises; whether the
\* open transaction stays usable or is aborted depends on the DuckDB build
BeginFails ==
    /\ inTxn
    /\ \E a \in {aborted, TRUE} : aborted' = a
    /\ UNCHANGED <<db, committed, inTxn, owner>>

\* con.commit(): a no-op in autocommit mode, else commits the open transaction
Commit ==
    /\ ~Broken
    /\ committed' = db
    /\ inTxn' = FALSE
    /\ owner' = NULL
    /\ UNCHANGED <<db, aborted>>

\* ROLLBACK of the open transaction, whoever opened it; also what a COMMIT
\* of an aborted transaction does before it raises
Rollback ==
    /\ inTxn
    /\ db' = committed
    /\ inTxn' = FALSE
    /\ aborted' = FALSE
    /\ owner' = NULL
    /\ UNCHANGED committed

----------------------------------------------------------------------------
(* Call records *)

NoRes == [status |-> "none", lacking |-> {}]

Idle == [op |-> "idle", pc |-> "idle", data |-> <<>>, pre |-> <<>>,
         i |-> 0, customer_id |-> NULL, transaction_id |-> NULL, total_amount |-> 0,
         err |-> "none", lacking |-> {}, res |-> NoRes]

NewCall(op, pc, data) ==
    [Idle EXCEPT !.op = op, !.pc = pc, !.data = data, !.pre = committed]

Raise(c, err) == [c EXCEPT !.pc = "except", !.err = err]

Done(c, status) ==
    [c EXCEPT !.pc = "done", !.res = [status |-> status, lacking |-> c.lacking]]

CanStart(p) ==
    /\ calls[p].pc = "idle"
    /\ nCalls < MaxCalls

\* no call in flight and no transaction open
Quiescent == (\A p \in Procs : calls[p].pc \in {"idle", "done"}) /\ ~inTxn

----------------------------------------------------------------------------
(* add_material *)

AddMaterialInputs ==
    [item_name : {"glue ", "steel"}, current_stock : {0, 5}, supplier_id : {1},
     material_cost : {3}]

\* an add_material that inserts without looking for the name
AddMaterial_Unchecked(p, data) ==
    /\ CanStart(p)
    /\ ~inTxn
    /\ nCalls' = nCalls + 1
    /\ LET item_name == Title(data.item_name)
           item_id == NextId(db.items)
           material_id == NextId(db.materials)
           d == [db EXCEPT
                   !.items = (item_id :> item_name) @@ @,
                   !.materials = (material_id :>
                       [item_id |-> item_id,
                        current_stock |-> data.current_stock,
                        supplier_id |-> data.supplier_id,
                        material_cost |-> data.material_cost]) @@ @]
           c == NewCall("add_material", "start", data)
       IN /\ calls' = [calls EXCEPT ![p] = Done(c, "ok")]
          /\ Written(d)
    /\ UNCHANGED <<inTxn, aborted, owner>>

\* The statements run on con.cursor(), which autocommits each of them.
AddMaterial(p, data) ==
    /\ CanStart(p)
    /\ ~inTxn
    /\ nCalls' = nCalls + 1
    /\ LET item_name == Title(data.item_name)
           existing_item == \E k \in DOMAIN db.items : db.items[k] = item_name
           item_id == NextId(db.items)
           material_id == NextId(db.materials)
           d == [db EXCEPT
                   !.items = (item_id :> item_name) @@ @,
                   !.materials = (material_id :>
                       [item_id |-> item_id,
                        current_stock |-> data.current_stock,
                        supplier_id |-> data.supplier_id,
                        material_cost |-> data.material_cost]) @@ @]
           c == NewCall("add_material", "start", data)
       IN IF existing_item
          THEN /\ calls' = [calls EXCEPT ![p] = Done(c, "duplicate")]
               /\ UNCHANGED <<db, committed>>
          ELSE /\ calls' = [calls EXCEPT ![p] = Done(c, "ok")]
               /\ Written(d)
    /\ UNCHANGED <<inTxn, aborted, owner>>

----------------------------------------------------------------------------
(* stock_materials *)

ReceiptLines ==
    { [material_id |-> 1, quantity |-> 4],
      [material_id |-> 1, quantity |-> 10],
      [material_id |-> 2, quantity |-> 4] }

\* the request of stock_materials: its lines, a known supplier, the default
\* stock type and the given actors
StockData(items, admin_id, employee_id) ==
    [items |-> items, supplier_id |-> 1, supplier |-> "", stock_type_id |-> "",
     admin_id |-> admin_id, employee_id |-> employee_id]

\* receipts by an admin, of every list of lines; one-line receipts without actor
StockInputs ==
    { StockData(its, 1, NULL) : its \in SeqsUpTo(ReceiptLines, MaxItems) }
    \cup { StockData(its, NULL, NULL) : its \in SeqsUpTo(ReceiptLines, 1) }

\* try: con.execute("BEGIN")
StockBegin(p, data) ==
    /\ CanStart(p)
    /\ nCalls' = nCalls + 1
    /\ LET c == NewCall("stock", "header", data)
       IN IF inTxn
          THEN /\ calls' = [calls EXCEPT ![p] = Raise(c, "txn_error")]
               /\ BeginFails
          ELSE /\ calls' = [calls EXCEPT ![p] = c]
               /\ BeginOk(p)

\* Steps 0-2: supplier, stock type, actor, the stock_transactions row
StockHeader(p) ==
    LET c == calls[p]
        data == c.data
        inline == (data.supplier_id = NULL) /\ (data.supplier # "")
        contact_name == Title(data.supplier)
        existing == \E k \in DOMAIN db.suppliers :
                        Lower(db.suppliers[k]) = Lower(contact_name)
        new_supplier == NextId(db.suppliers)
        d0 == IF inline
              THEN [db EXCEPT !.suppliers = (new_supplier :> contact_name) @@ @]
              ELSE db
        supplier_id == IF inline THEN new_supplier ELSE data.supplier_id
        default_type == {t \in db.stock_types : t.type_code = "STT001"}
        stock_type_id == IF data.stock_type_id # "" THEN data.stock_type_id
                         ELSE (CHOOSE t \in default_type : TRUE).id
        d1 == [d0 EXCEPT !.stock_transactions = Append(@,
                  [stock_type_id |-> stock_type_id, supplier_id |-> supplier_id,
                   admin_id |-> data.admin_id, employee_id |-> data.employee_id])]
    IN
    /\ c.op = "stock" /\ c.pc = "header"
    /\ UNCHANGED <<inTxn, aborted, owner, nCalls>>
    /\ IF inline /\ Broken
       THEN /\ calls' = [calls EXCEPT ![p] = Raise(c, "txn_error")]
            /\ UNCHANGED <<db, committed>>
       ELSE IF inline /\ existing
       THEN /\ calls' = [calls EXCEPT ![p] = Raise(c, "duplicate")]
            /\ UNCHANGED <<db, committed>>
       ELSE IF ~inline /\ data.supplier_id = NULL
       THEN /\ calls' = [calls EXCEPT ![p] = Raise(c, "invalid_input")]
            /\ UNCHANGED <<db, committed>>
       ELSE IF data.stock_type_id = "" /\ Broken
       THEN /\ calls' = [calls EXCEPT ![p] = Raise(c, "txn_error")]
            /\ UNCHANGED <<db, committed>>
       ELSE IF data.stock_type_id = "" /\ default_type = {}
       THEN /\ calls' = [calls EXCEPT ![p] = Raise(c, "not_found")]
            /\ Written(d0)
       ELSE IF data.admin_id = NULL /\ data.employee_id = NULL
       THEN /\ calls' = [calls EXCEPT ![p] = Raise(c, "invalid_input")]
            /\ Written(d0)
       ELSE IF Broken
       THEN /\ calls' = [calls EXCEPT ![p] = Raise(c, "txn_error")]
            /\ UNCHANGED <<db, committed>>
       ELSE /\ calls' = [calls EXCEPT ![p] =
                   [c EXCEPT !.pc = "items",
                             !.transaction_id = Len(d1.stock_transactions)]]
            /\ Written(d1)

\* the loop pass without its UPDATE materials: the ledger line only
ReceiveItem_NoIncrement(d, stock_transaction_id, item) ==
    [d EXCEPT
       !.stock_transaction_items = Append(@,
           [stock_transaction_id |-> stock_transaction_id,
            material_id |-> item.material_id,
            quantity |-> item.quantity])]

\* one pass of the loop of Step 3: the ledger line and the stock increment
ReceiveItem(d, stock_transaction_id, item) ==
    [d EXCEPT
       !.stock_transaction_items = Append(@,
           [stock_transaction_id |-> stock_transaction_id,
            material_id |-> item.material_id,
            quantity |-> item.quantity]),
       !.materials = [m \in DOMAIN @ |->
           IF m = item.material_id
           THEN [@[m] EXCEPT !.current_stock = @ + item.quantity]
           ELSE @[m]]]

\* `for item in items`: the tables after the loop and whether it ran to its
\* end; item["quantity"] of a line without that key raises KeyError
RECURSIVE ReceiveItems(_, _, _)
ReceiveItems(d, stock_transaction_id, items) ==
    IF items = <<>> THEN [d |-> d, ok |-> TRUE]
    ELSE IF "quantity" \notin DOMAIN Head(items) THEN [d |-> d, ok |-> FALSE]
    ELSE ReceiveItems(ReceiveItem(d, stock_transaction_id, Head(items)),
                      stock_transaction_id, Tail(items))

\* Step 3: for item in items
StockItems(p) ==
    LET c == calls[p]
        received == ReceiveItems(db, c.transaction_id, c.data.items)
    IN
    /\ c.op = "stock" /\ c.pc = "items"
    /\ UNCHANGED <<inTxn, aborted, owner, nCalls>>
    /\ IF Broken /\ c.data.items # <<>>
       THEN /\ calls' = [calls EXCEPT ![p] = Raise(c, "txn_error")]
            /\ UNCHANGED <<db, committed>>
       ELSE IF ~received.ok
       THEN /\ calls' = [calls EXCEPT ![p] = Raise(c, "key_error")]
            /\ Written(received.d)
       ELSE /\ calls' = [calls EXCEPT ![p] = [c EXCEPT !.pc = "commit"]]
            /\ Written(received.d)

\* con.commit(); return
StockCommit(p) ==
    LET c == calls[p]
    IN
    /\ c.op = "stock" /\ c.pc = "commit"
    /\ UNCHANGED nCalls
    /\ IF Broken
       THEN /\ calls' = [calls EXCEPT ![p] = Raise(c, "txn_error")]
            /\ Rollback
       ELSE /\ calls' = [calls EXCEPT ![p] = Done(c, "ok")]
            /\ Commit

\* an except block that re-raises without the rollback and leaves the
\* statements of the call to the next commit
StockExcept_NoRollback(p) ==
    LET c == calls[p]
    IN
    /\ c.op = "stock" /\ c.pc = "except"
    /\ UNCHANGED nCalls
    /\ calls' = [calls EXCEPT ![p] = Done(c, c.err)]
    /\ IF inTxn THEN Commit ELSE UNCHANGED conn

\* except: con.rollback(); raise e
StockExcept(p) ==
    LET c == calls[p]
    IN
    /\ c.op = "stock" /\ c.pc = "except"
    /\ UNCHANGED nCalls
    /\ IF inTxn
       THEN /\ Rollback
            /\ calls' = [calls EXCEPT ![p] = Done(c, c.err)]
       ELSE /\ calls' = [calls EXCEPT ![p] = Done(c, "txn_error")]
            /\ UNCHANGED conn

----------------------------------------------------------------------------
(* create_order_transaction *)

\* products 1 and 2 exist, product 9 does not
OrderLines ==
    { [product_id |-> 1, quantity |-> 1],
      [product_id |-> 2, quantity |-> 1],
      [product_id |-> 9, quantity |-> 1] }

\* the request of create_order_transaction
OrderData(items, customer_id, customer) ==
    [items |-> items, customer_id |-> customer_id, customer |-> customer,
     status_id |-> 1, admin_id |-> 1]

\* orders of every list of lines for a known customer and for inline
\* customer data; one-line orders with neither
OrderInputs ==
    { OrderData(its, 1, "") : its \in SeqsUpTo(OrderLines, MaxLines) }
    \cup { OrderData(its, NULL, "dana") : its \in SeqsUpTo(OrderLines, MaxLines) }
    \cup { OrderData(its, NULL, "") : its \in SeqsUpTo(OrderLines, 1) }

\* Step 0: the customer row is inserted before the try block and its BEGIN
OrderCustomer(p, data) ==
    /\ CanStart(p)
    /\ nCalls' = nCalls + 1
    /\ UNCHANGED <<inTxn, aborted, owner>>
    /\ LET c == NewCall("order", "begin", data)
           customer_id == NextId(db.customers)
       IN IF data.customer_id = NULL /\ data.customer # "" /\ Broken
          THEN /\ calls' = [calls EXCEPT ![p] = Done(c, "txn_error")]
               /\ UNCHANGED <<db, committed>>
          ELSE IF data.customer_id = NULL /\ data.customer # ""
          THEN /\ Written([db EXCEPT !.customers = (customer_id :> data.customer) @@ @])
               /\ calls' = [calls EXCEPT ![p] =
                      [c EXCEPT !.customer_id = customer_id]]
          ELSE IF data.customer_id = NULL
          THEN /\ calls' = [calls EXCEPT ![p] = Done(c, "invalid_input")]
               /\ UNCHANGED <<db, committed>>
          ELSE /\ calls' = [calls EXCEPT ![p] =
                      [c EXCEPT !.customer_id = data.customer_id]]
               /\ UNCHANGED <<db, committed>>

\* try: con.execute("BEGIN")
OrderBegin(p) ==
    LET c == calls[p]
    IN
    /\ c.op = "order" /\ c.pc = "begin"
    /\ UNCHANGED nCalls
    /\ IF inTxn
       THEN /\ calls' = [calls EXCEPT ![p] = Raise(c, "txn_error")]
            /\ BeginFails
       ELSE /\ calls' = [calls EXCEPT ![p] = [c EXCEPT !.pc = "precheck"]]
            /\ BeginOk(p)

\* SELECT ... FROM product_materials pm JOIN materials m JOIN items i
\* WHERE pm.product_id = ?   (rows in table order)
BomJoined(d, product_id) ==
    LET rows == SelectSeq(d.product_materials, LAMBDA r :
                    /\ r.product_id = product_id
                    /\ r.material_id \in DOMAIN d.materials
                    /\ d.materials[r.material_id].item_id \in DOMAIN d.items)
        Joined(r) == [material_id |-> r.material_id,
                      used_quantity |-> r.used_quantity,
                      current_stock |-> d.materials[r.material_id].current_stock]
    IN Map(rows, Joined)

\* SELECT pm.material_id, pm.used_quantity FROM product_materials pm
\* WHERE pm.product_id = ?
BomRows(d, product_id) ==
    SelectSeq(d.product_materials, LAMBDA r : r.product_id = product_id)

\* the body of `for material_id, used_qty, current_stock, ... in materials`:
\* the entry of the material is assigned anew, then its needed is increased
Require(req, row, quantity) ==
    LET total_needed == row.used_quantity * quantity
        entry == [needed |-> 0, available |-> row.current_stock]
    IN (row.material_id :> [entry EXCEPT !.needed = @ + total_needed]) @@ req

RECURSIVE RequireRows(_, _, _)
RequireRows(req, rows, quantity) ==
    IF rows = <<>> THEN req
    ELSE RequireRows(Require(req, Head(rows), quantity), Tail(rows), quantity)

\* Step 1, `for item in items`: material_requirements after the loop
RECURSIVE MaterialRequirements(_, _, _)
MaterialRequirements(d, req, items) ==
    IF items = <<>> THEN req
    ELSE MaterialRequirements(d,
             RequireRows(req, BomJoined(d, Head(items).product_id),
                         Head(items).quantity),
             Tail(items))

\* the materials the rejection message lists
LackingMaterials(req) ==
    { [material_id |-> m, needed |-> req[m].needed, available |-> req[m].available] :
        m \in {k \in DOMAIN req : req[k].needed > req[k].available} }

\* Step 1: pre-check all material stock, raise HTTPException(400) if lacking
\* a pre-check that runs after the order header is inserted
OrderPrecheck_HeaderFirst(p) ==
    LET c == calls[p]
        req == MaterialRequirements(db, <<>>, c.data.items)
        lacking == LackingMaterials(req)
        d == [db EXCEPT !.order_transactions = Append(@,
                 [customer_id |-> c.customer_id,
                  status_id |-> c.data.status_id,
                  admin_id |-> c.data.admin_id,
                  total_amount |-> 0])]
    IN
    /\ c.op = "order" /\ c.pc = "precheck"
    /\ UNCHANGED <<inTxn, aborted, owner, nCalls>>
    /\ IF Broken /\ c.data.items # <<>>
       THEN /\ calls' = [calls EXCEPT ![p] = Raise(c, "txn_error")]
            /\ UNCHANGED <<db, committed>>
       ELSE IF lacking # {}
       THEN /\ calls' = [calls EXCEPT ![p] =
                   Raise([c EXCEPT !.lacking = lacking,
                                   !.transaction_id = Len(d.order_transactions)],
                         "insufficient")]
            /\ Written(d)
       ELSE /\ calls' = [calls EXCEPT ![p] = [c EXCEPT !.pc = "insert"]]
            /\ UNCHANGED <<db, committed>>

OrderPrecheck(p) ==
    LET c == calls[p]
        req == MaterialRequirements(db, <<>>, c.data.items)
        lacking == LackingMaterials(req)
    IN
    /\ c.op = "order" /\ c.pc = "precheck"
    /\ UNCHANGED <<conn, nCalls>>
    /\ IF Broken /\ c.data.items # <<>>
       THEN calls' = [calls EXCEPT ![p] = Raise(c, "txn_error")]
       ELSE IF lacking # {}
       THEN calls' = [calls EXCEPT ![p] =
                Raise([c EXCEPT !.lacking = lacking], "insufficient")]
       ELSE calls' = [calls EXCEPT ![p] = [c EXCEPT !.pc = "insert"]]

\* Step 2: INSERT INTO order_transactions (..., total_amount = 0.0)
OrderInsert(p) ==
    LET c == calls[p]
        d == [db EXCEPT !.order_transactions = Append(@,
                 [customer_id |-> c.customer_id,
                  status_id |-> c.data.status_id,
                  admin_id |-> c.data.admin_id,
                  total_amount |-> 0])]
    IN
    /\ c.op = "order" /\ c.pc = "insert"
    /\ UNCHANGED <<inTxn, aborted, owner, nCalls>>
    /\ IF Broken
       THEN /\ calls' = [calls EXCEPT ![p] = Raise(c, "txn_error")]
            /\ UNCHANGED <<db, committed>>
       ELSE /\ calls' = [calls EXCEPT ![p] =
                   [c EXCEPT !.pc = "items", !.i = 1,
                             !.transaction_id = Len(d.order_transactions)]]
            /\ Written(d)

\* a consumption that adds to the material's last ledger line when that line
\* is a consumption too, instead of inserting a movement of its own
Consume_Collapsed(d, admin_id, material_id, total_used) ==
    LET n == Len(d.stock_transaction_items)
        last == d.stock_transaction_items[n]
        merge == /\ n > 0
                 /\ last.material_id = material_id
                 /\ d.stock_transactions[last.stock_transaction_id].stock_type_id
                        = "STT002"
        header == [stock_type_id |-> "STT002",
                   supplier_id |-> d.materials[material_id].supplier_id,
                   admin_id |-> admin_id, employee_id |-> NULL]
        lines == IF merge
                 THEN [d.stock_transaction_items EXCEPT ![n].quantity = @ + total_used]
                 ELSE Append(d.stock_transaction_items,
                          [stock_transaction_id |-> Len(d.stock_transactions) + 1,
                           material_id |-> material_id,
                           quantity |-> total_used])
    IN [d EXCEPT
          !.stock_transactions = IF merge THEN @ ELSE Append(@, header),
          !.stock_transaction_items = lines,
          !.materials = [m \in DOMAIN @ |->
              IF m = material_id
              THEN [@[m] EXCEPT !.current_stock = @ - total_used]
              ELSE @[m]]]

\* one consumption: the stock_transactions row 'STT002', its item, the decrement
Consume(d, admin_id, material_id, total_used) ==
    LET header == [stock_type_id |-> "STT002",
                   supplier_id |-> d.materials[material_id].supplier_id,
                   admin_id |-> admin_id, employee_id |-> NULL]
        stock_transaction_id == Len(d.stock_transactions) + 1
    IN [d EXCEPT
          !.stock_transactions = Append(@, header),
          !.stock_transaction_items = Append(@,
              [stock_transaction_id |-> stock_transaction_id,
               material_id |-> material_id,
               quantity |-> total_used]),
          !.materials = [m \in DOMAIN @ |->
              IF m = material_id
              THEN [@[m] EXCEPT !.current_stock = @ - total_used]
              ELSE @[m]]]

\* a supplier check that accepts a material whose supplier_id is NULL
NoSupplier_RowOnly(d, material_id) == material_id \notin DOMAIN d.materials

\* if not supplier or not supplier[0]
NoSupplier(d, material_id) ==
    \/ material_id \notin DOMAIN d.materials
    \/ d.materials[material_id].supplier_id = NULL

\* `for material_id, used_qty in materials` of one order line: the tables
\* after the loop and whether it ran to its end
RECURSIVE ConsumeRows(_, _, _, _)
ConsumeRows(d, admin_id, rows, quantity) ==
    IF rows = <<>> THEN [d |-> d, ok |-> TRUE]
    ELSE LET material_id == Head(rows).material_id
             total_used == Head(rows).used_quantity * quantity
         IN IF NoSupplier(d, material_id)
            THEN [d |-> d, ok |-> FALSE]
            ELSE ConsumeRows(Consume(d, admin_id, material_id, total_used),
                             admin_id, Tail(rows), quantity)

\* Step 3, one pass of `for item in items`
OrderItem(p) ==
    LET c == calls[p]
        item == c.data.items[c.i]
        found == item.product_id \in DOMAIN db.products
        unit_price == db.products[item.product_id].unit_price
        line_total == item.quantity * unit_price
        used == ConsumeRows(db, c.data.admin_id,
                            BomRows(db, item.product_id), item.quantity)
        d == [used.d EXCEPT !.order_items = Append(@,
                 [order_id |-> c.transaction_id, product_id |-> item.product_id,
                  quantity |-> item.quantity, unit_price |-> unit_price])]
    IN
    /\ c.op = "order" /\ c.pc = "items" /\ c.i <= Len(c.data.items)
    /\ UNCHANGED <<inTxn, aborted, owner, nCalls>>
    /\ IF Broken
       THEN /\ calls' = [calls EXCEPT ![p] = Raise(c, "txn_error")]
            /\ UNCHANGED <<db, committed>>
       ELSE IF ~found
       THEN /\ calls' = [calls EXCEPT ![p] = Raise(c, "not_found")]
            /\ UNCHANGED <<db, committed>>
       ELSE IF ~used.ok
       THEN /\ calls' = [calls EXCEPT ![p] = Raise(c, "no_supplier")]
            /\ Written(used.d)
       ELSE /\ calls' = [calls EXCEPT ![p] =
                   [c EXCEPT !.i = @ + 1, !.total_amount = @ + line_total]]
            /\ Written(d)

\* UPDATE order_transactions SET total_amount; con.commit(); return
OrderFinish(p) ==
    LET c == calls[p]
        d == [db EXCEPT !.order_transactions = [k \in DOMAIN @ |->
                 IF k = c.transaction_id
                 THEN [@[k] EXCEPT !.total_amount = c.total_amount]
                 ELSE @[k]]]
    IN
    /\ c.op = "order" /\ c.pc = "items" /\ c.i > Len(c.data.items)
    /\ UNCHANGED nCalls
    /\ IF Broken
       THEN /\ calls' = [calls EXCEPT ![p] = Raise(c, "txn_error")]
            /\ UNCHANGED conn
       ELSE /\ calls' = [calls EXCEPT ![p] = Done(c, "ok")]
            /\ db' = d
            /\ committed' = d
            /\ inTxn' = FALSE
            /\ owner' = NULL
            /\ UNCHANGED aborted

\* an except block that re-raises without the ROLLBACK
OrderExcept_NoRollback(p) ==
    LET c == calls[p]
    IN
    /\ c.op = "order" /\ c.pc = "except"
    /\ calls' = [calls EXCEPT ![p] = Done(c, c.err)]
    /\ UNCHANGED <<conn, nCalls>>

\* except: con.execute("ROLLBACK"); raise e
OrderExcept(p) ==
    LET c == calls[p]
    IN
    /\ c.op = "order" /\ c.pc = "except"
    /\ UNCHANGED nCalls
    /\ IF inTxn
       THEN /\ Rollback
            /\ calls' = [calls EXCEPT ![p] = Done(c, c.err)]
       ELSE /\ calls' = [calls EXCEPT ![p] = Done(c, "txn_error")]
            /\ UNCHANGED conn

----------------------------------------------------------------------------
(* The caller takes the result or the exception *)

Return(p) ==
    /\ calls[p].pc = "done"
    /\ calls' = [calls EXCEPT ![p] = Idle]
    /\ UNCHANGED <<conn, nCalls>>

----------------------------------------------------------------------------

Init ==
    /\ \E supplier2 \in {NULL, 1} : db = SeedDb(supplier2)
    /\ committed = db
    /\ inTxn = FALSE
    /\ aborted = FALSE
    /\ owner = NULL
    /\ calls = [p \in Procs |-> Idle]
    /\ nCalls = 0

Next ==
    \/ \E data \in AddMaterialInputs : AddMaterial(1, data)
    \/ \E data \in StockInputs : StockBegin(1, data)
    \/ StockHeader(1)
    \/ StockItems(1)
    \/ StockCommit(1)
    \/ StockExcept(1)
    \/ \E data \in OrderInputs : OrderCustomer(1, data)
    \/ OrderBegin(1)
    \/ OrderPrecheck(1)
    \/ OrderInsert(1)
    \/ OrderItem(1)
    \/ OrderFinish(1)
    \/ OrderExcept(1)
    \/ Return(1)

Spec == Init /\ [][Next]_vars

----------------------------------------------------------------------------
(* Two callers on the shared connection *)

ConcStockInputs ==
    { StockData(<<[material_id |-> 1, quantity |-> 10]>>, 1, NULL) }

\* 3 x product 1: 6 units of material 1
ConcOrderInputs ==
    { OrderData(<<[product_id |-> 1, quantity |-> 3]>>, 1, ""),
      OrderData(<<[product_id |-> 1, quantity |-> 3]>>, NULL, "dana") }

\* the tables after stock_materials received 10 units of material 1
StockedDb(supplier2) ==
    LET d == SeedDb(supplier2)
        header == [stock_type_id |-> "T1", supplier_id |-> 1,
                   admin_id |-> 1, employee_id |-> NULL]
    IN ReceiveItem([d EXCEPT !.stock_transactions = <<header>>], 1,
                   [material_id |-> 1, quantity |-> 10])

InitConc ==
    /\ \E supplier2 \in {NULL, 1} : db = StockedDb(supplier2)
    /\ committed = db
    /\ inTxn = FALSE
    /\ aborted = FALSE
    /\ owner = NULL
    /\ calls = [p \in Procs |-> Idle]
    /\ nCalls = 0

NextConc ==
    \E p \in Procs :
        \/ \E data \in ConcStockInputs : StockBegin(p, data)
        \/ StockHeader(p)
        \/ StockItems(p)
        \/ StockCommit(p)
        \/ StockExcept(p)
        \/ \E data \in ConcOrderInputs : OrderCustomer(p, data)
        \/ OrderBegin(p)
        \/ OrderPrecheck(p)
        \/ OrderInsert(p)
        \/ OrderItem(p)
        \/ OrderFinish(p)
        \/ OrderExcept(p)
        \/ Return(p)

SpecConc == InitConc /\ [][NextConc]_vars

\* InitConc is a state Spec reaches: quiescent, with these tables
StockedReached ==
    /\ Quiescent
    /\ \E supplier2 \in {NULL, 1} : db = StockedDb(supplier2)

----------------------------------------------------------------------------
(* Handlers that run their statements outside an explicit transaction *)

\* the call record of a handler that ran to its return or its raise
Ran(op, data, status) == Done(NewCall(op, "start", data), status)

\* a keyed table without the row of key k
Without(table, k) == [j \in DOMAIN table \ {k} |-> table[j]]

\* result.rowcount after an UPDATE or DELETE that changed n rows: n with a
\* client that counts the rows of a statement, -1 with one that does not
RowCounts(n) == {n, -1}

----------------------------------------------------------------------------
(* update_product, delete_product *)

\* product 1 exists, product 9 does not; "Table" is the name of product 2
UpdateProductInputs ==
    [product_id : {1, 9}, unit_price : {5, 8}, item_name : {"Chair", "Table"}]

UpdateProduct(p, data) ==
    /\ CanStart(p)
    /\ ~inTxn
    /\ nCalls' = nCalls + 1
    /\ UNCHANGED <<inTxn, aborted, owner>>
    /\ LET found == data.product_id \in DOMAIN db.products
           item_id == db.products[data.product_id].item_id
           duplicate_check == \E k \in DOMAIN db.items :
                                  db.items[k] = data.item_name /\ k # item_id
           d == [db EXCEPT
                   !.products[data.product_id].unit_price = data.unit_price,
                   !.items[item_id] = data.item_name]
       IN IF ~found
          THEN /\ calls' = [calls EXCEPT ![p] = Ran("update_product", data, "not_found")]
               /\ UNCHANGED <<db, committed>>
          ELSE IF duplicate_check
          THEN /\ calls' = [calls EXCEPT ![p] = Ran("update_product", data, "duplicate")]
               /\ UNCHANGED <<db, committed>>
          ELSE /\ calls' = [calls EXCEPT ![p] = Ran("update_product", data, "ok")]
               /\ Written(d)

DeleteProductInputs == [product_id : {1, 9}]

\* The statements run on a connection of the call's own, each autocommitted:
\* the product's BOM lines, its order lines, the product, its item.
DeleteProduct(p, data) ==
    /\ CanStart(p)
    /\ ~inTxn
    /\ nCalls' = nCalls + 1
    /\ UNCHANGED <<inTxn, aborted, owner>>
    /\ LET product_id == data.product_id
           item_result == product_id \in DOMAIN db.products
           item_id == db.products[product_id].item_id
           d == [db EXCEPT
                   !.product_materials =
                       SelectSeq(@, LAMBDA r : r.product_id # product_id),
                   !.order_items =
                       SelectSeq(@, LAMBDA r : r.product_id # product_id),
                   !.products = Without(@, product_id),
                   !.items = Without(@, item_id)]
       IN IF ~item_result
          THEN /\ calls' = [calls EXCEPT ![p] = Ran("delete_product", data, "not_found")]
               /\ UNCHANGED <<db, committed>>
          ELSE /\ calls' = [calls EXCEPT ![p] = Ran("delete_product", data, "ok")]
               /\ Written(d)

----------------------------------------------------------------------------
(* update_order_status *)

\* order 1 may exist, order 9 does not; status code 'OS404' does not exist
UpdateOrderStatusInputs ==
    [transaction_id : {1, 9}, new_status_code : {"OS001", "OS002", "OS404"}]

\* a handler that does not validate the status code and writes the id it
\* found, or NULL, to the order
UpdateOrderStatus_Unchecked(p, data) ==
    /\ CanStart(p)
    /\ ~inTxn
    /\ nCalls' = nCalls + 1
    /\ UNCHANGED <<inTxn, aborted, owner>>
    /\ LET status_row == {s \in db.order_statuses :
                              s.status_code = data.new_status_code}
           status_id == IF status_row = {} THEN NULL
                        ELSE (CHOOSE s \in status_row : TRUE).id
           txn_row == data.transaction_id \in DOMAIN db.order_transactions
           d == [db EXCEPT
                   !.order_transactions[data.transaction_id].status_id = status_id]
       IN IF ~txn_row
          THEN /\ calls' = [calls EXCEPT ![p] =
                      Ran("update_order_status", data, "txn_not_found")]
               /\ UNCHANGED <<db, committed>>
          ELSE /\ calls' = [calls EXCEPT ![p] =
                      Ran("update_order_status", data, "ok")]
               /\ Written(d)

\* a handler whose UPDATE has no WHERE clause and writes every order
UpdateOrderStatus_EveryOrder(p, data) ==
    /\ CanStart(p)
    /\ ~inTxn
    /\ nCalls' = nCalls + 1
    /\ UNCHANGED <<inTxn, aborted, owner>>
    /\ LET status_row == {s \in db.order_statuses :
                              s.status_code = data.new_status_code}
           txn_row == data.transaction_id \in DOMAIN db.order_transactions
           d == [db EXCEPT !.order_transactions = [k \in DOMAIN @ |->
                    [@[k] EXCEPT !.status_id = (CHOOSE s \in status_row : TRUE).id]]]
       IN IF status_row = {}
          THEN /\ calls' = [calls EXCEPT ![p] =
                      Ran("update_order_status", data, "status_not_found")]
               /\ UNCHANGED <<db, committed>>
          ELSE IF ~txn_row
          THEN /\ calls' = [calls EXCEPT ![p] =
                      Ran("update_order_status", data, "txn_not_found")]
               /\ UNCHANGED <<db, committed>>
          ELSE /\ calls' = [calls EXCEPT ![p] =
                      Ran("update_order_status", data, "ok")]
               /\ Written(d)

\* a handler that refuses to move an order back to an earlier status
UpdateOrderStatus_ForwardOnly(p, data) ==
    /\ CanStart(p)
    /\ ~inTxn
    /\ nCalls' = nCalls + 1
    /\ UNCHANGED <<inTxn, aborted, owner>>
    /\ LET status_row == {s \in db.order_statuses :
                              s.status_code = data.new_status_code}
           status_id == (CHOOSE s \in status_row : TRUE).id
           txn_row == data.transaction_id \in DOMAIN db.order_transactions
           d == [db EXCEPT
                   !.order_transactions[data.transaction_id].status_id = status_id]
       IN IF status_row = {}
          THEN /\ calls' = [calls EXCEPT ![p] =
                      Ran("update_order_status", data, "status_not_found")]
               /\ UNCHANGED <<db, committed>>
          ELSE IF ~txn_row
          THEN /\ calls' = [calls EXCEPT ![p] =
                      Ran("update_order_status", data, "txn_not_found")]
               /\ UNCHANGED <<db, committed>>
          ELSE IF status_id < db.order_transactions[data.transaction_id].status_id
          THEN /\ calls' = [calls EXCEPT ![p] =
                      Ran("update_order_status", data, "invalid_transition")]
               /\ UNCHANGED <<db, committed>>
          ELSE /\ calls' = [calls EXCEPT ![p] =
                      Ran("update_order_status", data, "ok")]
               /\ Written(d)

UpdateOrderStatus(p, data) ==
    /\ CanStart(p)
    /\ ~inTxn
    /\ nCalls' = nCalls + 1
    /\ UNCHANGED <<inTxn, aborted, owner>>
    /\ LET status_row == {s \in db.order_statuses :
                              s.status_code = data.new_status_code}
           txn_row == data.transaction_id \in DOMAIN db.order_transactions
           d == [db EXCEPT !.order_transactions[data.transaction_id].status_id =
                    (CHOOSE s \in status_row : TRUE).id]
       IN IF status_row = {}
          THEN /\ calls' = [calls EXCEPT ![p] =
                      Ran("update_order_status", data, "status_not_found")]
               /\ UNCHANGED <<db, committed>>
          ELSE IF ~txn_row
          THEN /\ calls' = [calls EXCEPT ![p] =
                      Ran("update_order_status", data, "txn_not_found")]
               /\ UNCHANGED <<db, committed>>
          ELSE /\ calls' = [calls EXCEPT ![p] =
                      Ran("update_order_status", data, "ok")]
               /\ Written(d)

----------------------------------------------------------------------------
(* update_product_material, delete_product_material *)

\* the BOM lines of one (product_id, material_id) pair
PairRows(d, product_id, material_id) ==
    SelectSeq(d.product_materials, LAMBDA r :
        r.product_id = product_id /\ r.material_id = material_id)

\* product 1 has a BOM line for material 1 and none for material 2
UpdateProductMaterialInputs ==
    [product_id : {1}, material_id : {1, 2}, used_quantity : {5}, unit_cost : {9}]

UpdateProductMaterial(p, data) ==
    /\ CanStart(p)
    /\ ~inTxn
    /\ nCalls' = nCalls + 1
    /\ UNCHANGED <<inTxn, aborted, owner>>
    /\ LET matched == PairRows(db, data.product_id, data.material_id)
           d == [db EXCEPT !.product_materials = [k \in DOMAIN @ |->
                    IF /\ @[k].product_id = data.product_id
                       /\ @[k].material_id = data.material_id
                    THEN [@[k] EXCEPT !.used_quantity = data.used_quantity,
                                      !.unit_cost = data.unit_cost]
                    ELSE @[k]]]
       IN /\ Written(d)
          /\ \E rowcount \in RowCounts(Len(matched)) :
                calls' = [calls EXCEPT ![p] =
                    Ran("update_product_material", data,
                        IF rowcount = 0 THEN "not_found" ELSE "ok")]

DeleteProductMaterialInputs == [product_id : {1}, material_id : {1, 2}]

DeleteProductMaterial(p, data) ==
    /\ CanStart(p)
    /\ ~inTxn
    /\ nCalls' = nCalls + 1
    /\ UNCHANGED <<inTxn, aborted, owner>>
    /\ LET matched == PairRows(db, data.product_id, data.material_id)
           d == [db EXCEPT !.product_materials = SelectSeq(@, LAMBDA r :
                    ~(r.product_id = data.product_id /\ r.material_id = data.material_id))]
       IN /\ Written(d)
          /\ \E rowcount \in RowCounts(Len(matched)) :
                calls' = [calls EXCEPT ![p] =
                    Ran("delete_product_material", data,
                        IF rowcount = 0 THEN "not_found" ELSE "ok")]

----------------------------------------------------------------------------
(* Orders on a catalog that is repriced, pruned and deleted *)

\* 1 or 2 of product 1 (2 of material 1 each), 1 of product 2
CatalogOrderLines ==
    { [product_id |-> 1, quantity |-> 1],
      [product_id |-> 1, quantity |-> 2],
      [product_id |-> 2, quantity |-> 1] }

CatalogOrderInputs ==
    { OrderData(its, 1, "") : its \in SeqsUpTo(CatalogOrderLines, MaxLines) }

\* the tables after stock_materials received 10 units of material 1
InitCatalog ==
    /\ db = StockedDb(1)
    /\ committed = db
    /\ inTxn = FALSE
    /\ aborted = FALSE
    /\ owner = NULL
    /\ calls = [p \in Procs |-> Idle]
    /\ nCalls = 0

NextCatalog ==
    \/ \E data \in CatalogOrderInputs : OrderCustomer(1, data)
    \/ OrderBegin(1)
    \/ OrderPrecheck(1)
    \/ OrderInsert(1)
    \/ OrderItem(1)
    \/ OrderFinish(1)
    \/ OrderExcept(1)
    \/ \E data \in UpdateProductInputs : UpdateProduct(1, data)
    \/ \E data \in DeleteProductInputs : DeleteProduct(1, data)
    \/ \E data \in DeleteProductMaterialInputs : DeleteProductMaterial(1, data)
    \/ \E data \in UpdateOrderStatusInputs : UpdateOrderStatus(1, data)
    \/ Return(1)

SpecCatalog == InitCatalog /\ [][NextCatalog]_vars

----------------------------------------------------------------------------
(* stock_materials on every kind of request *)

\* a receipt of 4, of 0 and of -1, and a line without "quantity"
AnyReceiptLines ==
    { [material_id |-> 1, quantity |-> 4],
      [material_id |-> 2, quantity |-> 0],
      [material_id |-> 1, quantity |-> -1],
      [material_id |-> 1] }

\* a known supplier_id, inline details of an existing and of a new supplier,
\* neither
SupplierChoices ==
    { [supplier_id |-> 1, supplier |-> ""],
      [supplier_id |-> NULL, supplier |-> "acme"],
      [supplier_id |-> NULL, supplier |-> " bolt co"],
      [supplier_id |-> NULL, supplier |-> ""] }

\* an admin, an employee, both, neither
ActorChoices ==
    { [admin_id |-> 1, employee_id |-> NULL],
      [admin_id |-> NULL, employee_id |-> 1],
      [admin_id |-> 1, employee_id |-> 1],
      [admin_id |-> NULL, employee_id |-> NULL] }

StockRequest(items, s, a) ==
    [items |-> items, supplier_id |-> s.supplier_id, supplier |-> s.supplier,
     stock_type_id |-> "", admin_id |-> a.admin_id, employee_id |-> a.employee_id]

\* by an admin: every list of lines from a known supplier, every list of
\* good and malformed lines from a new inline supplier; one good line with
\* every supplier and actor choice
AnyStockInputs ==
    { StockRequest(its, [supplier_id |-> 1, supplier |-> ""],
                   [admin_id |-> 1, employee_id |-> NULL]) :
        its \in SeqsUpTo(AnyReceiptLines, MaxItems) }
    \cup { StockRequest(its, [supplier_id |-> NULL, supplier |-> " bolt co"],
                        [admin_id |-> 1, employee_id |-> NULL]) :
             its \in SeqsUpTo({ [material_id |-> 1, quantity |-> 4],
                                [material_id |-> 1] }, MaxItems) }
    \cup { StockRequest(<<[material_id |-> 1, quantity |-> 4]>>, s, a) :
             s \in SupplierChoices, a \in ActorChoices }

\* the seed tables, with or without the 'STT001' row of stock_types
InitStock ==
    /\ \E types \in SUBSET SeedDb(1).stock_types :
          db = [SeedDb(1) EXCEPT !.stock_types = types]
    /\ committed = db
    /\ inTxn = FALSE
    /\ aborted = FALSE
    /\ owner = NULL
    /\ calls = [p \in Procs |-> Idle]
    /\ nCalls = 0

NextStock ==
    \/ \E data \in AnyStockInputs : StockBegin(1, data)
    \/ StockHeader(1)
    \/ StockItems(1)
    \/ StockCommit(1)
    \/ StockExcept(1)
    \/ Return(1)

SpecStock == InitStock /\ [][NextStock]_vars

----------------------------------------------------------------------------
(* add_product_materials *)

\* BOM lines of a request, with and without 'unit_cost'; material 7 does
\* not exist
BomLines ==
    { [material_id |-> 1, used_quantity |-> 4],
      [material_id |-> 2, used_quantity |-> 1],
      [material_id |-> 2, used_quantity |-> 2, unit_cost |-> 9],
      [material_id |-> 7, used_quantity |-> 1] }

AddProductMaterialsInputs ==
    { [product_id |-> 1, materials |-> ms] : ms \in SeqsUpTo(BomLines, MaxMaterials) }

\* a loop pass that writes the request's values over the line of an
\* existing pair
AddProductMaterial_Overwrite(d, product_id, material) ==
    LET existing == PairRows(d, product_id, material.material_id) # <<>>
        given == "unit_cost" \in DOMAIN material
        known == material.material_id \in DOMAIN d.materials
        unit_cost == IF given THEN material.unit_cost
                     ELSE d.materials[material.material_id].material_cost
        row == [product_id |-> product_id, material_id |-> material.material_id,
                used_quantity |-> material.used_quantity, unit_cost |-> unit_cost]
    IN IF ~given /\ ~known THEN [d |-> d, ok |-> FALSE]
       ELSE IF existing
       THEN [d |-> [d EXCEPT !.product_materials = [k \in DOMAIN @ |->
                       IF /\ @[k].product_id = product_id
                          /\ @[k].material_id = material.material_id
                       THEN row ELSE @[k]]],
             ok |-> TRUE]
       ELSE [d |-> [d EXCEPT !.product_materials = Append(@, row)], ok |-> TRUE]

\* one pass of `for material in materials`: skip an existing pair, take the
\* given unit_cost or the material's material_cost, insert the line
AddProductMaterial(d, product_id, material) ==
    LET existing == PairRows(d, product_id, material.material_id) # <<>>
        given == "unit_cost" \in DOMAIN material
        known == material.material_id \in DOMAIN d.materials
        unit_cost == IF given THEN material.unit_cost
                     ELSE d.materials[material.material_id].material_cost
        row == [product_id |-> product_id, material_id |-> material.material_id,
                used_quantity |-> material.used_quantity, unit_cost |-> unit_cost]
    IN IF existing THEN [d |-> d, ok |-> TRUE]
       ELSE IF ~given /\ ~known THEN [d |-> d, ok |-> FALSE]
       ELSE [d |-> [d EXCEPT !.product_materials = Append(@, row)], ok |-> TRUE]

\* the loop: the tables after it and whether it ran to its end
RECURSIVE AddProductMaterialRows(_, _, _)
AddProductMaterialRows(d, product_id, materials) ==
    IF materials = <<>> THEN [d |-> d, ok |-> TRUE]
    ELSE LET added == AddProductMaterial(d, product_id, Head(materials))
         IN IF ~added.ok THEN added
            ELSE AddProductMaterialRows(added.d, product_id, Tail(materials))

\* Every statement autocommits; a raise in the loop leaves the lines
\* inserted before it.
AddProductMaterials(p, data) ==
    /\ CanStart(p)
    /\ ~inTxn
    /\ nCalls' = nCalls + 1
    /\ UNCHANGED <<inTxn, aborted, owner>>
    /\ LET added == AddProductMaterialRows(db, data.product_id, data.materials)
       IN /\ Written(added.d)
          /\ calls' = [calls EXCEPT ![p] =
                Ran("add_product_materials", data,
                    IF added.ok THEN "ok" ELSE "not_found")]

----------------------------------------------------------------------------
(* update_materials *)

\* material 2 exists, material 7 does not; "Steel" is the name of material 1
UpdateMaterialsInputs ==
    [material_id : {2, 7}, item_name : {"Bolt", "Steel"}, material_cost : {2, 6},
     current_stock : {0, 5}, supplier_id : {1}]

\* an update that also writes the new cost into the material's BOM lines
UpdateMaterials_Reprice(p, data) ==
    /\ CanStart(p)
    /\ ~inTxn
    /\ nCalls' = nCalls + 1
    /\ UNCHANGED <<inTxn, aborted, owner>>
    /\ LET found == data.material_id \in DOMAIN db.materials
           d == [db EXCEPT
                   !.materials[data.material_id].material_cost = data.material_cost,
                   !.product_materials = [k \in DOMAIN @ |->
                       IF @[k].material_id = data.material_id
                       THEN [@[k] EXCEPT !.unit_cost = data.material_cost]
                       ELSE @[k]]]
       IN IF ~found
          THEN /\ calls' = [calls EXCEPT ![p] = Ran("update_materials", data, "not_found")]
               /\ UNCHANGED <<db, committed>>
          ELSE /\ calls' = [calls EXCEPT ![p] = Ran("update_materials", data, "ok")]
               /\ Written(d)

\* The two checks run before the try block; BEGIN, the two UPDATEs and
\* COMMIT run on a connection with no transaction open.
UpdateMaterials(p, data) ==
    /\ CanStart(p)
    /\ ~inTxn
    /\ nCalls' = nCalls + 1
    /\ UNCHANGED <<inTxn, aborted, owner>>
    /\ LET found == data.material_id \in DOMAIN db.materials
           item_id == db.materials[data.material_id].item_id
           duplicate_check == \E k \in DOMAIN db.items :
                                  db.items[k] = data.item_name /\ k # item_id
           d == [db EXCEPT
                   !.materials[data.material_id] =
                       [@ EXCEPT !.material_cost = data.material_cost,
                                 !.current_stock = data.current_stock,
                                 !.supplier_id = data.supplier_id],
                   !.items[item_id] = data.item_name]
       IN IF ~found
          THEN /\ calls' = [calls EXCEPT ![p] = Ran("update_materials", data, "not_found")]
               /\ UNCHANGED <<db, committed>>
          ELSE IF duplicate_check
          THEN /\ calls' = [calls EXCEPT ![p] = Ran("update_materials", data, "duplicate")]
               /\ UNCHANGED <<db, committed>>
          ELSE /\ calls' = [calls EXCEPT ![p] = Ran("update_materials", data, "ok")]
               /\ Written(d)

----------------------------------------------------------------------------
(* calculate_quote *)

\* product 1 and 2 have lines, product 9 does not exist
CalculateQuoteInputs == [product_id : {1, 2, 9}]

\* the stored column line_cost of a product_materials row
LineCost(row) == row.used_quantity * row.unit_cost

\* product_materials pm JOIN materials m JOIN items i WHERE pm.product_id = ?
QuoteJoined(d, product_id) ==
    SelectSeq(d.product_materials,
              LAMBDA pm : /\ pm.product_id = product_id
                          /\ pm.material_id \in DOMAIN d.materials
                          /\ d.materials[pm.material_id].item_id \in DOMAIN d.items)

\* the selected columns of the joined rows
QuoteRows(d, product_id) ==
    LET joined == QuoteJoined(d, product_id)
    IN [k \in 1..Len(joined) |->
           LET pm == joined[k]
               m == d.materials[pm.material_id]
           IN [material_id |-> pm.material_id, material_cost |-> m.material_cost,
               line_cost |-> LineCost(pm), item_name |-> d.items[m.item_id],
               unit_cost |-> pm.unit_cost, used_quantity |-> pm.used_quantity]]

\* a total that adds the unit costs of the rows
QuoteTotal_UnitCosts(rows) == SeqSum([k \in 1..Len(rows) |-> rows[k].unit_cost])

\* rows['line_cost'].sum()
QuoteTotal(rows) == SeqSum([k \in 1..Len(rows) |-> rows[k].line_cost])

\* One SELECT and no write; the rows and their total are returned.
CalculateQuote(p, data) ==
    /\ CanStart(p)
    /\ ~inTxn
    /\ nCalls' = nCalls + 1
    /\ UNCHANGED <<db, committed, inTxn, aborted, owner>>
    /\ LET rows == QuoteRows(db, data.product_id)
       IN calls' = [calls EXCEPT ![p] =
              [Ran("calculate_quote", data, "ok") EXCEPT
                  !.res = [status |-> "ok", lacking |-> {}, materials |-> rows,
                           total_cost |-> QuoteTotal(rows)]]]

----------------------------------------------------------------------------
(* Maintenance of the bills of materials *)

InitBom ==
    /\ db = SeedDb(1)
    /\ committed = db
    /\ inTxn = FALSE
    /\ aborted = FALSE
    /\ owner = NULL
    /\ calls = [p \in Procs |-> Idle]
    /\ nCalls = 0

NextBom ==
    \/ \E data \in AddProductMaterialsInputs : AddProductMaterials(1, data)
    \/ \E data \in UpdateProductMaterialInputs : UpdateProductMaterial(1, data)
    \/ \E data \in DeleteProductMaterialInputs : DeleteProductMaterial(1, data)
    \/ \E data \in UpdateMaterialsInputs : UpdateMaterials(1, data)
    \/ \E data \in CalculateQuoteInputs : CalculateQuote(1, data)
    \/ Return(1)

SpecBom == InitBom /\ [][NextBom]_vars

----------------------------------------------------------------------------
(* delete_material *)

\* material 1 exists, material 7 does not
DeleteMaterialInputs == [material_id : {1, 7}]

\* Every statement autocommits: the material's BOM lines, its ledger lines,
\* the material, its item.
DeleteMaterial(p, data) ==
    /\ CanStart(p)
    /\ ~inTxn
    /\ nCalls' = nCalls + 1
    /\ UNCHANGED <<inTxn, aborted, owner>>
    /\ LET material_id == data.material_id
           row == material_id \in DOMAIN db.materials
           item_id == db.materials[material_id].item_id
           d == [db EXCEPT
                   !.product_materials =
                       SelectSeq(@, LAMBDA r : r.material_id # material_id),
                   !.stock_transaction_items =
                       SelectSeq(@, LAMBDA r : r.material_id # material_id),
                   !.materials = Without(@, material_id),
                   !.items = Without(@, item_id)]
       IN IF ~row
          THEN /\ calls' = [calls EXCEPT ![p] = Ran("delete_material", data, "not_found")]
               /\ UNCHANGED <<db, committed>>
          ELSE /\ calls' = [calls EXCEPT ![p] = Ran("delete_material", data, "ok")]
               /\ Written(d)

----------------------------------------------------------------------------
(* Orders, status changes and deletions on a ledger that holds an order *)

\* the tables after a receipt of 10 units of material 1 and a committed
\* order of 3 x product 1, which consumed 6 of them
OrderedDb ==
    LET d0 == StockedDb(1)
        header == [customer_id |-> 1, status_id |-> 1, admin_id |-> 1,
                   total_amount |-> 15]
        d1 == Consume([d0 EXCEPT !.order_transactions = <<header>>], 1, 1, 6)
    IN [d1 EXCEPT !.order_items =
           <<[order_id |-> 1, product_id |-> 1, quantity |-> 3, unit_price |-> 5]>>]

\* SpecConc reaches these tables: quiescent, after the order of ConcOrderInputs
OrderedReached == Quiescent /\ db = OrderedDb

\* 1, 3 and -1 of product 1 (2 of material 1 each)
LedgerOrderLines ==
    { [product_id |-> 1, quantity |-> 1],
      [product_id |-> 1, quantity |-> 3],
      [product_id |-> 1, quantity |-> -1] }

LedgerOrderInputs ==
    { OrderData(its, 1, "") : its \in SeqsUpTo(LedgerOrderLines, MaxLines) }

InitLedger ==
    /\ db = OrderedDb
    /\ committed = db
    /\ inTxn = FALSE
    /\ aborted = FALSE
    /\ owner = NULL
    /\ calls = [p \in Procs |-> Idle]
    /\ nCalls = 0

NextLedger ==
    \/ \E data \in LedgerOrderInputs : OrderCustomer(1, data)
    \/ OrderBegin(1)
    \/ OrderPrecheck(1)
    \/ OrderInsert(1)
    \/ OrderItem(1)
    \/ OrderFinish(1)
    \/ OrderExcept(1)
    \/ \E data \in UpdateOrderStatusInputs : UpdateOrderStatus(1, data)
    \/ \E data \in DeleteMaterialInputs : DeleteMaterial(1, data)
    \/ \E data \in DeleteProductInputs : DeleteProduct(1, data)
    \/ Return(1)

SpecLedger == InitLedger /\ [][NextLedger]_vars

----------------------------------------------------------------------------
(* add_product, and the names of the items *)

AddProductInputs == [item_name : {"glue ", "chair"}, unit_price : {5}]

\* The check runs on con and the two INSERTs on con.cursor(); each statement
\* autocommits.  A name already held is answered with success False.
AddProduct(p, data) ==
    /\ CanStart(p)
    /\ ~inTxn
    /\ nCalls' = nCalls + 1
    /\ UNCHANGED <<inTxn, aborted, owner>>
    /\ LET item_name == Title(data.item_name)
           existing == \E k \in DOMAIN db.items :
                           Lower(Trim(db.items[k])) = Lower(item_name)
           item_id == NextId(db.items)
           d == [db EXCEPT
                   !.items = (item_id :> item_name) @@ @,
                   !.products = (NextId(db.products) :>
                       [item_id |-> item_id, unit_price |-> data.unit_price]) @@ @]
       IN IF existing
          THEN /\ calls' = [calls EXCEPT ![p] = Ran("add_product", data, "duplicate")]
               /\ UNCHANGED <<db, committed>>
          ELSE /\ calls' = [calls EXCEPT ![p] = Ran("add_product", data, "ok")]
               /\ Written(d)

\* renames of material 2 ("Bolt"): to the name of material 1, to names no
\* seeded item holds, and to its own name
RenameMaterialInputs ==
    [material_id : {2}, item_name : {"Steel", "Glue", "glue", "Bolt"},
     material_cost : {2}, current_stock : {0}, supplier_id : {1}]

\* renames of product 1 ("Chair")
RenameProductInputs ==
    [product_id : {1}, unit_price : {5}, item_name : {"Table", "Glue", "Glue "}]

InitNames ==
    /\ db = SeedDb(1)
    /\ committed = db
    /\ inTxn = FALSE
    /\ aborted = FALSE
    /\ owner = NULL
    /\ calls = [p \in Procs |-> Idle]
    /\ nCalls = 0

NextNames ==
    \/ \E data \in AddMaterialInputs : AddMaterial(1, data)
    \/ \E data \in AddProductInputs : AddProduct(1, data)
    \/ \E data \in RenameMaterialInputs : UpdateMaterials(1, data)
    \/ \E data \in RenameProductInputs : UpdateProduct(1, data)
    \/ Return(1)

SpecNames == InitNames /\ [][NextNames]_vars

----------------------------------------------------------------------------
(* What the claims speak of *)

\* direction of a ledger row: orders write stock type 'STT002'
IsConsumption(d, line) ==
    d.stock_transactions[line.stock_transaction_id].stock_type_id = "STT002"

Receipts(d, m) ==
    SeqSum(Map(d.stock_transaction_items, LAMBDA l :
        IF l.material_id = m /\ ~IsConsumption(d, l) THEN l.quantity ELSE 0))

Consumptions(d, m) ==
    SeqSum(Map(d.stock_transaction_items, LAMBDA l :
        IF l.material_id = m /\ IsConsumption(d, l) THEN l.quantity ELSE 0))

LedgerBalance(d, m) == Receipts(d, m) - Consumptions(d, m)

Stock(d, m) == d.materials[m].current_stock

\* used_quantity x quantity of one order line for material m
LineDemand(d, line, m) ==
    SeqSum(Map(d.product_materials, LAMBDA r :
        IF r.product_id = line.product_id /\ r.material_id = m
        THEN r.used_quantity * line.quantity ELSE 0))

\* the demand of a whole order for material m, summed over all its lines
SummedDemand(d, items, m) ==
    SeqSum(Map(items, LAMBDA line : LineDemand(d, line, m)))

\* quantity received for material m by the lines of one stock_materials call
Received(items, m) ==
    SeqSum(Map(items, LAMBDA it : IF it.material_id = m THEN it.quantity ELSE 0))

\* one (material, quantity) entry per order line and BOM row of its product
RECURSIVE ExpectedConsumptions(_, _)
ExpectedConsumptions(d, items) ==
    IF items = <<>> THEN <<>>
    ELSE Map(SelectSeq(d.product_materials,
                       LAMBDA r : r.product_id = Head(items).product_id),
             LAMBDA r : [material_id |-> r.material_id,
                         quantity |-> r.used_quantity * Head(items).quantity])
         \o ExpectedConsumptions(d, Tail(items))

\* the rows a call appended to a table
Appended(before, after) == SubSeq(after, Len(before) + 1, Len(after))

IsDone(p, op) == calls[p].op = op /\ calls[p].pc = "done"

Committed(p, op) == IsDone(p, op) /\ calls[p].res.status = "ok"

\* a create_order_transaction call that entered its try block and failed
OrderFailed(p) ==
    /\ IsDone(p, "order")
    /\ calls[p].res.status \notin {"ok", "invalid_input"}

LedgerAndOrdersAsBefore(p) ==
    /\ db.order_transactions = calls[p].pre.order_transactions
    /\ db.order_items = calls[p].pre.order_items
    /\ db.stock_transactions = calls[p].pre.stock_transactions
    /\ db.stock_transaction_items = calls[p].pre.stock_transaction_items
    /\ db.materials = calls[p].pre.materials

----------------------------------------------------------------------------
(* Claims *)

\* C1: with no call and no transaction in flight, every material's
\* current_stock equals the sum of its receipt quantities minus the sum of
\* its consumption quantities.
C1_StockEqualsLedger ==
    Quiescent =>
        \A m \in DOMAIN db.materials : Stock(db, m) = LedgerBalance(db, m)

\* C2: an order that commits from a state where every current_stock is >= 0
\* leaves every current_stock >= 0.
C2_NoNegativeStock ==
    \A p \in Procs :
        ( /\ Committed(p, "order")
          /\ \A m \in DOMAIN calls[p].pre.materials : Stock(calls[p].pre, m) >= 0 )
        => \A m \in DOMAIN db.materials : Stock(db, m) >= 0

\* C3: an order whose demand for some material, summed over all its lines,
\* exceeds that material's current_stock is rejected for insufficient stock.
C3_SummedDemandChecked ==
    \A p \in Procs :
        ( /\ IsDone(p, "order")
          /\ calls[p].res.status # "invalid_input"
          /\ \E m \in DOMAIN calls[p].pre.materials :
                SummedDemand(calls[p].pre, calls[p].data.items, m)
                    > Stock(calls[p].pre, m) )
        => calls[p].res.status = "insufficient"

\* C4: a rejection for insufficient stock lists every material whose summed
\* demand exceeds its available stock.
C4_AllDeficitsListed ==
    \A p \in Procs :
        ( IsDone(p, "order") /\ calls[p].res.status = "insufficient" )
        => {l.material_id : l \in calls[p].res.lacking}
             = {m \in DOMAIN calls[p].pre.materials :
                  SummedDemand(calls[p].pre, calls[p].data.items, m)
                      > Stock(calls[p].pre, m)}

\* C5: after a create_order_transaction call that failed, the order tables,
\* the stock ledger and every current_stock are what they were before the call.
C5_FailedOrderLeavesNothing ==
    \A p \in Procs : OrderFailed(p) => LedgerAndOrdersAsBefore(p)

\* a call failed on its second line, after the first line's consumption and
\* the order header had been written
C5_Witness ==
    \E p \in Procs :
        /\ OrderFailed(p)
        /\ calls[p].transaction_id # NULL
        /\ calls[p].i = 2
        /\ calls[p].res.status \in {"not_found", "no_supplier"}
        /\ SummedDemand(calls[p].pre, <<calls[p].data.items[1]>>, 1) > 0

\* C6: after a call with inline customer data that failed, the customers
\* table is what it was before the call.
C6_CustomerRolledBack ==
    \A p \in Procs :
        ( /\ OrderFailed(p)
          /\ calls[p].data.customer_id = NULL
          /\ calls[p].data.customer # "" )
        => db.customers = calls[p].pre.customers

\* C7: of two concurrent calls that each need 6 units of a material whose
\* current_stock is 10, exactly one commits and the other is rejected for
\* insufficient stock.
C7_OneCommitsOneRejected ==
    ( \A p \in Procs :
        /\ IsDone(p, "order")
        /\ Stock(calls[p].pre, 1) = 10
        /\ SummedDemand(calls[p].pre, calls[p].data.items, 1) = 6 )
    => \E p, q \in Procs :
          /\ p # q
          /\ calls[p].res.status = "ok"
          /\ calls[q].res.status = "insufficient"

\* C8: while a call's transaction is open, only steps of the call that
\* opened it write through the connection or end the transaction.
C8_TransactionOwnedByCall ==
    [][ (inTxn /\ (db' # db \/ ~inTxn')) => calls'[owner] # calls[owner] ]_vars

\* C9: a committed stock_materials call raises each material's current_stock
\* by the quantities of its lines, a committed order lowers it by
\* used_quantity x quantity of its lines, and the ledger moves by the same
\* amount.
C9_MovementsAdjustStock ==
    \A p \in Procs : \A m \in DOMAIN db.materials :
        /\ Committed(p, "stock") =>
              /\ Stock(db, m) = Stock(calls[p].pre, m) + Received(calls[p].data.items, m)
              /\ LedgerBalance(db, m) =
                    LedgerBalance(calls[p].pre, m) + Received(calls[p].data.items, m)
        /\ Committed(p, "order") =>
              /\ Stock(db, m) = Stock(calls[p].pre, m)
                                  - SummedDemand(calls[p].pre, calls[p].data.items, m)
              /\ LedgerBalance(db, m) =
                    LedgerBalance(calls[p].pre, m)
                      - SummedDemand(calls[p].pre, calls[p].data.items, m)

\* an order consuming 4 committed after a receipt of 10: the stock is 6
C9_Witness ==
    \E p \in Procs :
        /\ Committed(p, "order")
        /\ Receipts(db, 1) = 10
        /\ Consumptions(db, 1) = 4
        /\ Stock(db, 1) = 6

\* C10: a committed order appends to the ledger one consumption movement per
\* (order line, BOM row of the line's product), in that order, each with its
\* own header and quantity used_quantity x the line's quantity.
C10_ConsumptionPerLine ==
    \A p \in Procs :
        Committed(p, "order") =>
            LET lines == Appended(calls[p].pre.stock_transaction_items,
                                  db.stock_transaction_items)
                n == Len(calls[p].pre.stock_transactions)
            IN /\ Map(lines, LAMBDA l : [material_id |-> l.material_id,
                                          quantity |-> l.quantity])
                    = ExpectedConsumptions(calls[p].pre, calls[p].data.items)
               /\ Len(db.stock_transactions) = n + Len(lines)
               /\ \A k \in 1..Len(lines) :
                     /\ lines[k].stock_transaction_id = n + k
                     /\ IsConsumption(db, lines[k])

\* a committed order of two lines that consume the same material
C10_Witness ==
    \E p \in Procs :
        /\ Committed(p, "order")
        /\ Len(calls[p].data.items) = 2
        /\ \A k \in 1..2 : LineDemand(calls[p].pre, calls[p].data.items[k], 1) > 0

\* sum of quantity x unit_price over the order lines of order k
LinesTotal(d, k) ==
    SeqSum(Map(d.order_items, LAMBDA l :
        IF l.order_id = k THEN l.quantity * l.unit_price ELSE 0))

\* C11: with no call in flight, the total_amount of every committed order
\* equals the sum of quantity x unit_price over its order lines, whatever
\* repricing and product deletion came after it.
C11_TotalIsSumOfLines ==
    Quiescent =>
        \A k \in DOMAIN db.order_transactions :
            db.order_transactions[k].total_amount = LinesTotal(db, k)

\* the ledger lines a stock_materials call writes under header h, one per
\* line of the request
ReceiptRows(items, h) ==
    Map(items, LAMBDA it : [stock_transaction_id |-> h,
                            material_id |-> it.material_id,
                            quantity |-> it.quantity])

\* C12: a stock_materials call that failed leaves every table as it was
\* before the call; one that succeeded wrote one header, one ledger line per
\* line of the request and each line's increment of current_stock.
C12_StockAllOrNothing ==
    \A p \in Procs :
        /\ ( IsDone(p, "stock") /\ calls[p].res.status # "ok" )
              => db = calls[p].pre
        /\ Committed(p, "stock") =>
              LET h == Len(calls[p].pre.stock_transactions) + 1
              IN /\ Len(db.stock_transactions) = h
                 /\ Appended(calls[p].pre.stock_transaction_items,
                             db.stock_transaction_items)
                       = ReceiptRows(calls[p].data.items, h)
                 /\ \A m \in DOMAIN db.materials :
                       Stock(db, m) = Stock(calls[p].pre, m)
                                        + Received(calls[p].data.items, m)

\* a call with inline supplier details failed on its second line, after the
\* supplier, the header and the first line had been written
C12_Witness ==
    \E p \in Procs :
        /\ IsDone(p, "stock")
        /\ calls[p].res.status = "key_error"
        /\ calls[p].data.supplier = " bolt co"
        /\ Len(calls[p].data.items) = 2
        /\ "quantity" \in DOMAIN calls[p].data.items[1]

\* the stock_materials call names exactly one of admin_id / employee_id
OneActor(data) == (data.admin_id = NULL) # (data.employee_id = NULL)

\* C13: a stock_materials call with neither or both of admin_id and
\* employee_id is rejected and writes nothing, and every committed receipt
\* header has exactly one of the two fields set.
C13_ExactlyOneActor ==
    /\ \A p \in Procs :
          ( IsDone(p, "stock") /\ ~OneActor(calls[p].data) )
          => ( calls[p].res.status # "ok" /\ db = calls[p].pre )
    /\ \A k \in DOMAIN committed.stock_transactions :
          committed.stock_transactions[k].stock_type_id # "STT002"
          => OneActor(committed.stock_transactions[k])

\* C14: every committed ledger line has a quantity greater than zero.
C14_PositiveQuantities ==
    \A k \in DOMAIN committed.stock_transaction_items :
        committed.stock_transaction_items[k].quantity > 0

\* material m has no recorded supplier
Unsupplied(d, m) == m \in DOMAIN d.materials /\ d.materials[m].supplier_id = NULL

\* some line of the order has a BOM row whose material has no supplier
ConsumesUnsupplied(d, items) ==
    \E k \in DOMAIN items : \E j \in DOMAIN d.product_materials :
        /\ d.product_materials[j].product_id = items[k].product_id
        /\ Unsupplied(d, d.product_materials[j].material_id)

\* C15: an order with a line that consumes a material without supplier does
\* not commit, and after it the order tables, the ledger and every
\* current_stock are what they were before the call.
C15_NoSupplierFails ==
    \A p \in Procs :
        ( /\ IsDone(p, "order")
          /\ calls[p].res.status # "invalid_input"
          /\ ConsumesUnsupplied(calls[p].pre, calls[p].data.items) )
        => ( calls[p].res.status # "ok" /\ LedgerAndOrdersAsBefore(p) )

\* a call raised for a missing supplier after it had inserted the order
\* header and consumed the first material of the same line
C15_Witness ==
    \E p \in Procs :
        /\ IsDone(p, "order")
        /\ calls[p].res.status = "no_supplier"
        /\ calls[p].transaction_id # NULL
        /\ LET rows == BomRows(calls[p].pre,
                               calls[p].data.items[calls[p].i].product_id)
           IN /\ Len(rows) = 2
              /\ ~Unsupplied(calls[p].pre, rows[1].material_id)
              /\ Unsupplied(calls[p].pre, rows[2].material_id)

\* C16: an order with a line for a product that has no BOM lines does not
\* commit, and after it the order tables, the ledger and every current_stock
\* are what they were before the call.
C16_NoBomNotFulfilled ==
    \A p \in Procs :
        ( /\ IsDone(p, "order")
          /\ calls[p].res.status # "invalid_input"
          /\ \E k \in DOMAIN calls[p].data.items :
                BomRows(calls[p].pre, calls[p].data.items[k].product_id) = <<>> )
        => ( calls[p].res.status # "ok" /\ LedgerAndOrdersAsBefore(p) )

\* the (product_id, material_id) pairs that have a BOM line
Pairs(d) ==
    { <<d.product_materials[k].product_id, d.product_materials[k].material_id>> :
        k \in DOMAIN d.product_materials }

\* the first line of an add_product_materials request that names material m
FirstLine(materials, m) ==
    materials[CHOOSE k \in DOMAIN materials :
                 /\ materials[k].material_id = m
                 /\ \A j \in 1..(k - 1) : materials[j].material_id # m]

\* C17: no (product_id, material_id) pair ever has more than one BOM line;
\* add_product_materials leaves the line of every pair that had one
\* unchanged, and a pair it adds gets the used_quantity of the first line of
\* the request that names it.
C17_AddIsIdempotent ==
    /\ \A pair \in Pairs(db) : Len(PairRows(db, pair[1], pair[2])) = 1
    /\ \A p \in Procs :
          IsDone(p, "add_product_materials") =>
              LET n == Len(calls[p].pre.product_materials)
                  added == Appended(calls[p].pre.product_materials,
                                    db.product_materials)
              IN /\ SubSeq(db.product_materials, 1, n)
                       = calls[p].pre.product_materials
                 /\ \A k \in DOMAIN added :
                       added[k].used_quantity =
                           FirstLine(calls[p].data.materials,
                                     added[k].material_id).used_quantity

\* a call whose first line names a pair that an earlier call added, with
\* another used_quantity
C17_Witness ==
    \E p \in Procs :
        /\ IsDone(p, "add_product_materials")
        /\ calls[p].res.status = "ok"
        /\ PairRows(calls[p].pre, 1, 2) # <<>>
        /\ calls[p].data.materials[1].material_id = 2
        /\ calls[p].data.materials[1].used_quantity
              # PairRows(calls[p].pre, 1, 2)[1].used_quantity

\* C18: a BOM line added without unit_cost gets the material_cost the
\* material had when the line was added, and update_materials leaves every
\* BOM line as it was.
C18_UnitCostIsCopy ==
    \A p \in Procs :
        /\ IsDone(p, "add_product_materials") =>
              \A k \in DOMAIN Appended(calls[p].pre.product_materials,
                                       db.product_materials) :
                  LET row == Appended(calls[p].pre.product_materials,
                                      db.product_materials)[k]
                      line == FirstLine(calls[p].data.materials, row.material_id)
                  IN "unit_cost" \notin DOMAIN line =>
                        row.unit_cost =
                            calls[p].pre.materials[row.material_id].material_cost
        /\ IsDone(p, "update_materials") =>
              db.product_materials = calls[p].pre.product_materials

\* update_materials changed the cost of material 2 after a BOM line for it
\* had been added at the old cost
C18_Witness ==
    \E p \in Procs :
        /\ IsDone(p, "update_materials")
        /\ calls[p].res.status = "ok"
        /\ db.materials[2].material_cost # calls[p].pre.materials[2].material_cost
        /\ PairRows(db, 1, 2) # <<>>
        /\ PairRows(db, 1, 2)[1].unit_cost = calls[p].pre.materials[2].material_cost

\* C19: update_product_material and delete_product_material on a pair
\* without BOM line fail with not-found and leave the BOM table unchanged; on
\* a pair with a BOM line they change or remove that line and no other.
C19_MissingPairNotFound ==
    \A p \in Procs :
        LET c == calls[p]
            had == PairRows(c.pre, c.data.product_id, c.data.material_id) # <<>>
            others(d) == SelectSeq(d.product_materials, LAMBDA r :
                ~(r.product_id = c.data.product_id
                    /\ r.material_id = c.data.material_id))
        IN ( IsDone(p, "update_product_material")
               \/ IsDone(p, "delete_product_material") )
           => /\ ~had => /\ c.res.status = "not_found"
                         /\ db.product_materials = c.pre.product_materials
              /\ had => /\ others(db) = others(c.pre)
                        /\ Len(db.product_materials)
                             = Len(c.pre.product_materials)
                                 - (IF c.op = "delete_product_material" THEN 1 ELSE 0)

\* C20: update_order_status with a status code that does not exist or with
\* an order id that does not exist returns a not-found error and leaves every
\* order as it was.
C20_StatusChangeNotFound ==
    \A p \in Procs :
        LET c == calls[p]
            known_code == \E s \in c.pre.order_statuses :
                              s.status_code = c.data.new_status_code
            known_order == c.data.transaction_id \in DOMAIN c.pre.order_transactions
        IN ( IsDone(p, "update_order_status") /\ ~(known_code /\ known_order) )
           => /\ c.res.status \in {"status_not_found", "txn_not_found"}
              /\ db.order_transactions = c.pre.order_transactions

\* a call that named a committed order and a status code that does not exist
C20_Witness ==
    \E p \in Procs :
        /\ IsDone(p, "update_order_status")
        /\ calls[p].res.status = "status_not_found"
        /\ calls[p].data.transaction_id \in DOMAIN db.order_transactions

\* C21: a successful update_order_status leaves every table as it was but
\* for the status_id of the order it names.
C21_OnlyStatusChanges ==
    \A p \in Procs :
        Committed(p, "update_order_status") =>
            LET k == calls[p].data.transaction_id
            IN db = [calls[p].pre EXCEPT !.order_transactions[k].status_id =
                        db.order_transactions[k].status_id]

\* a successful call changed the status of order 1 while order 2 existed
C21_Witness ==
    \E p \in Procs :
        /\ Committed(p, "update_order_status")
        /\ Len(db.order_transactions) = 2
        /\ db.order_transactions[1].status_id
              # calls[p].pre.order_transactions[1].status_id

\* id of the status a status code names in tables d, NULL when none does
StatusId(d, code) ==
    IF \E s \in d.order_statuses : s.status_code = code
    THEN (CHOOSE s \in d.order_statuses : s.status_code = code).id
    ELSE NULL

\* C22: update_order_status on an existing order with an existing status
\* code succeeds and sets that status, whatever status the order had.
C22_AnyStatusFollowsAny ==
    \A p \in Procs :
        LET c == calls[p]
        IN ( /\ IsDone(p, "update_order_status")
             /\ StatusId(c.pre, c.data.new_status_code) # NULL
             /\ c.data.transaction_id \in DOMAIN c.pre.order_transactions )
           => /\ c.res.status = "ok"
              /\ db.order_transactions[c.data.transaction_id].status_id
                    = StatusId(c.pre, c.data.new_status_code)

\* an order that had been moved to status 2 was moved back to status 1
C22_Witness ==
    \E p \in Procs :
        /\ Committed(p, "update_order_status")
        /\ calls[p].pre.order_transactions[calls[p].data.transaction_id].status_id = 2
        /\ db.order_transactions[calls[p].data.transaction_id].status_id = 1

\* sequence s is a prefix of sequence t
IsPrefix(s, t) == Len(s) <= Len(t) /\ SubSeq(t, 1, Len(s)) = s

\* C23: no step changes or removes a committed stock movement, order line
\* or order header; only the status_id of an order header may change.
C23_LedgerAndOrdersImmutable ==
    [][ /\ IsPrefix(committed.stock_transactions, committed'.stock_transactions)
        /\ IsPrefix(committed.stock_transaction_items,
                    committed'.stock_transaction_items)
        /\ IsPrefix(committed.order_items, committed'.order_items)
        /\ Len(committed.order_transactions) <= Len(committed'.order_transactions)
        /\ \A k \in DOMAIN committed.order_transactions :
              [committed'.order_transactions[k] EXCEPT !.status_id = NULL]
                 = [committed.order_transactions[k] EXCEPT !.status_id = NULL]
      ]_vars

\* C24: a call of an operation other than stock_materials and
\* create_order_transaction leaves the current_stock of every material as it
\* was.
C24_StockOwnedByLedger ==
    \A p \in Procs :
        ( calls[p].pc = "done" /\ calls[p].op \notin {"stock", "order"} )
        => \A m \in DOMAIN db.materials \cap DOMAIN calls[p].pre.materials :
              Stock(db, m) = Stock(calls[p].pre, m)

\* C30: a call of add_product_materials that fails on one of its materials
\* leaves the product_materials table as it was when the call began.
C30_BomAllOrNothing ==
    \A p \in Procs :
        ( IsDone(p, "add_product_materials") /\ calls[p].res.status # "ok" )
        => db.product_materials = calls[p].pre.product_materials

\* the lines of a product's bill of materials
BomOf(d, product_id) ==
    SelectSeq(d.product_materials, LAMBDA r : r.product_id = product_id)

\* C25: calculate_quote writes nothing and returns one row per line of the
\* product's bill of materials with, as total_cost, the sum of their
\* line_cost; a product without lines gets no row and a total of 0, not an
\* error.
C25_QuoteIsSumOfLineCosts ==
    \A p \in Procs : calls[p].op = "calculate_quote" /\ calls[p].pc = "done" =>
        LET bom == BomOf(db, calls[p].data.product_id)
            res == calls[p].res
        IN /\ db = calls[p].pre
           /\ res.status = "ok"
           /\ Len(res.materials) = Len(bom)
           /\ \A k \in 1..Len(bom) :
                 /\ res.materials[k].material_id = bom[k].material_id
                 /\ res.materials[k].line_cost = bom[k].used_quantity * bom[k].unit_cost
           /\ res.total_cost
                 = SeqSum([k \in 1..Len(bom) |-> bom[k].used_quantity * bom[k].unit_cost])
           /\ bom = <<>> => res.materials = <<>> /\ res.total_cost = 0

\* the quote of product 2 over its two lines, 3 x 3 and 1 x 2
C25_Witness ==
    \E p \in Procs :
        /\ calls[p].op = "calculate_quote" /\ calls[p].pc = "done"
        /\ calls[p].data.product_id = 2
        /\ Len(calls[p].res.materials) = 2
        /\ calls[p].res.total_cost = 11

\* the quote of a product without lines
C25_EmptyQuote ==
    \E p \in Procs :
        /\ calls[p].op = "calculate_quote" /\ calls[p].pc = "done"
        /\ BomOf(db, calls[p].data.product_id) = <<>>
        /\ calls[p].res.total_cost = 0

\* C27: an order is rejected for insufficient stock only if the demand for
\* some material, summed over all the lines of the order, exceeds that
\* material's current_stock.
C27_RejectedOnlyWhenLacking ==
    \A p \in Procs :
        ( IsDone(p, "order") /\ calls[p].res.status = "insufficient" )
        => \E m \in DOMAIN calls[p].pre.materials :
              SummedDemand(calls[p].pre, calls[p].data.items, m)
                  > Stock(calls[p].pre, m)

\* C28: when an order is rejected for insufficient stock, no order header,
\* order line or ledger row of the call has been inserted and no stock
\* decremented, neither when the rejection is raised nor after it is handled.
C28_AdmissionBeforeWrites ==
    \A p \in Procs :
        ( /\ calls[p].op = "order"
          /\ calls[p].pc \in {"except", "done"}
          /\ calls[p].err = "insufficient" )
        => /\ LedgerAndOrdersAsBefore(p)
           /\ calls[p].transaction_id = NULL

\* the rejection has just been raised inside the open transaction
C28_Witness ==
    \E p \in Procs :
        /\ calls[p].op = "order" /\ calls[p].pc = "except"
        /\ calls[p].err = "insufficient"
        /\ calls[p].lacking # {}
        /\ inTxn /\ owner = p

\* the name an add or a rename asks for, as the handler would store it
AskedName(c) ==
    IF c.op \in {"add_material", "add_product"} THEN Title(c.data.item_name)
    ELSE c.data.item_name

\* the item a rename is about; an add is about none
OwnItem(c) ==
    CASE c.op = "update_materials" -> c.pre.materials[c.data.material_id].item_id
      [] c.op = "update_product" -> c.pre.products[c.data.product_id].item_id
      [] OTHER -> NULL

\* C26: no two items have the same name; an add_material, add_product,
\* update_materials or update_product call that asks for a name another item
\* holds is rejected as a duplicate, and a rejected call changes nothing.
C26_ItemNamesUnique ==
    /\ \A j, k \in DOMAIN db.items : j # k => db.items[j] # db.items[k]
    /\ \A p \in Procs :
          ( /\ calls[p].pc = "done"
            /\ calls[p].op \in {"add_material", "add_product",
                                "update_materials", "update_product"} )
          => /\ ( \E k \in DOMAIN calls[p].pre.items :
                     /\ k # OwnItem(calls[p])
                     /\ calls[p].pre.items[k] = AskedName(calls[p]) )
                => calls[p].res.status = "duplicate"
             /\ calls[p].res.status = "duplicate" => db = calls[p].pre

\* a rename to "Glue" is rejected: the name is held by an item that an
\* earlier call added or renamed
C26_Witness ==
    \E p \in Procs :
        /\ calls[p].pc = "done"
        /\ calls[p].op \in {"update_materials", "update_product"}
        /\ calls[p].data.item_name = "Glue"
        /\ calls[p].res.status = "duplicate"
        /\ db = calls[p].pre

\* C29: the transaction a stock_materials or create_order_transaction call
\* began is ended by a step of that call, its COMMIT or its ROLLBACK, with
\* which the call finishes; no call finishes with its transaction still open.
C29_CallEndsItsTransaction ==
    [][ \A p \in Procs :
          /\ ( inTxn /\ owner = p /\ ~(inTxn' /\ owner' = p) )
             => /\ calls[p].pc \in {"commit", "items", "except"}
                /\ calls'[p].pc = "done"
          /\ calls'[p].pc = "done" => ~(inTxn' /\ owner' = p) ]_vars

====
